---- MODULE Spec2Model ----
(***************************************************************************)
(* The DataTable view pipeline of the dashboard: search filter, sort and   *)
(* pagination over an in-memory record collection, with the three pieces   *)
(* of view state (search term, sort state, page index) and the operations  *)
(* that change them.                                                       *)
(*                                                                         *)
(* Strings are sequences of one-character strings, so that lower-casing,   *)
(* substring search, number formatting and collation are computed rather   *)
(* than assumed.                                                           *)
(***************************************************************************)
EXTENDS Integers, Sequences, FiniteSets, TLC

VARIABLES
    data,          \* the `data` prop: [given, rows]; given = FALSE is a null/undefined prop
    searchFields,  \* the `searchFields` prop: a sequence of field names
    pageSize,      \* the `pageSize` prop
    columns,       \* the `columns` prop: a sequence of column descriptors
    engine,        \* the Array.prototype.sort of the JavaScript engine the page runs on
    searchTerm,    \* useSearch state: the search term
    sort,          \* useState({key, direction})
    page,          \* usePagination state: the page index
    filteredData,  \* the array useSearch returned at the last render
    sortedData,    \* the array the sortedData memo holds after the last render
    detail,        \* a capability card and its CapabilityDetail: busy, requests in flight
    settings,      \* the DiscoverySettings panel: saving, saveMsg, armed timers
    hashHistory    \* createHashHistory: the listeners array and a notification under way

vars ==
    <<data, searchFields, pageSize, columns, engine,
      searchTerm, sort, page, filteredData, sortedData,
      detail, settings, hashHistory>>

\* The variables of the table, and those of the other components of the page
tableVars ==
    <<data, searchFields, pageSize, columns, engine,
      searchTerm, sort, page, filteredData, sortedData>>
otherVars == <<detail, settings, hashHistory>>

----------------------------------------------------------------------------
(* Bounds of the model *)

\* Longest raw collection of the controller specification
MaxLen == 3
\* Longest raw collection of the fixed-collection specification
MaxRows == 3
\* Largest page size tried
MaxPageSize == 2
\* Longest raw collection of the mixed-column specification
MaxMixed == 4
\* Longest raw collection of the specification with tied sort values
MaxTies == 3
\* Most listen() calls on the hash history
MaxListeners == 3
\* Most saves started on one settings panel
MaxSaves == 3
\* Clock steps in the lifetime of one clear timer
TicksPerTimeout == 2
\* Most promote/archive requests started on one capability card
MaxRequests == 3

----------------------------------------------------------------------------
(* Values, strings and records *)

Min(a, b) == IF a < b THEN a ELSE b
Max(a, b) == IF a > b THEN a ELSE b

\* A field value: a string, a number, null, or absent (undefined).
Absent == [t |-> "absent", n |-> 0, s |-> <<>>]
Null == [t |-> "null", n |-> 0, s |-> <<>>]
Num(k) == [t |-> "num", n |-> k, s |-> <<>>]
Str(cs) == [t |-> "str", n |-> 0, s |-> cs]

\* JavaScript `v == null`: true of null and of undefined
IsNullish(v) == v.t \in {"null", "absent"}

DigitChars == <<"0", "1", "2", "3", "4", "5", "6", "7", "8", "9">>
IsDigit(c) == \E i \in 1..10 : DigitChars[i] = c
DigitVal(c) == (CHOOSE i \in 1..10 : DigitChars[i] = c) - 1

\* The letters of the model's alphabet in collation order, lower and upper case
LowerLetters == <<"a", "e", "f", "i", "l", "m", "n", "p", "t">>
UpperLetters == <<"A", "E", "F", "I", "L", "M", "N", "P", "T">>
IsUpper(c) == \E i \in 1..Len(UpperLetters) : UpperLetters[i] = c
IsLetter(c) == IsUpper(c) \/ \E i \in 1..Len(LowerLetters) : LowerLetters[i] = c

\* String.prototype.toLowerCase
ToLowerChar(c) ==
    IF IsUpper(c)
    THEN LowerLetters[CHOOSE i \in 1..Len(UpperLetters) : UpperLetters[i] = c]
    ELSE c
ToLowerCase(s) == [i \in 1..Len(s) |-> ToLowerChar(s[i])]

\* The decimal digits of a natural number
RECURSIVE NatDigits(_)
NatDigits(k) ==
    IF k < 10 THEN <<DigitChars[k + 1]>>
    ELSE NatDigits(k \div 10) \o <<DigitChars[(k % 10) + 1]>>

\* String(v) for a string or an integer number
StringOf(v) ==
    IF v.t = "str" THEN v.s
    ELSE IF v.n < 0 THEN <<"-">> \o NatDigits(0 - v.n)
    ELSE NatDigits(v.n)

\* String.prototype.includes
Includes(s, sub) ==
    \E i \in 0..(Len(s) - Len(sub)) :
        \A j \in 1..Len(sub) : s[i + j] = sub[j]

----------------------------------------------------------------------------
(* The records the model draws from. A collection is an array of references *)
(* to record objects: a sequence of row names, Row giving the fields.       *)

RowNames ==
    {"lamp", "lamp2", "fan", "item10", "item2", "noname", "neg1", "neg1a", "neg2a",
     "fan2", "neg1s"}

Row ==
    [id \in RowNames |->
        CASE id = "lamp" -> [name |-> Str(<<"L", "a", "m", "p">>), val |-> Num(5)]
          [] id = "lamp2" -> [name |-> Str(<<"l", "a", "m", "p", "2">>), val |-> Null]
          [] id = "fan" -> [name |-> Str(<<"F", "a", "n">>), val |-> Num(2)]
          [] id = "item10" -> [name |-> Str(<<"i", "t", "e", "m", "1", "0">>),
                               val |-> Str(<<"1", "0", "a">>)]
          [] id = "item2" -> [name |-> Str(<<"I", "t", "e", "m", "2">>), val |-> Num(-2)]
          [] id = "noname" -> [name |-> Absent, val |-> Num(10)]
          [] id = "neg1" -> [name |-> Str(<<"l", "a", "m", "p">>), val |-> Num(-1)]
          [] id = "neg1a" -> [name |-> Str(<<"L", "a", "m", "p">>),
                              val |-> Str(<<"-", "1", "a">>)]
          [] id = "neg2a" -> [name |-> Str(<<"i", "t", "e", "m", "1", "0">>),
                              val |-> Str(<<"-", "2", "a">>)]
          [] id = "fan2" -> [name |-> Str(<<"f", "a", "n">>), val |-> Null]
          [] id = "neg1s" -> [name |-> Str(<<"F", "a", "n">>), val |-> Str(<<"-", "1">>)]]

\* Records of the controller specification and of the fixed-collection one
Pool == {"lamp", "fan"}
RichPool == {"lamp", "lamp2", "fan", "item10", "item2", "noname"}
\* Records of a column that holds numbers and strings side by side
MixedPool == {"item2", "neg1", "neg1a", "neg2a"}
\* Records with equal sort values: two null vals, the number -1 and the
\* string "-1", two names that differ in case only
TiesPool == {"lamp2", "fan2", "item2", "neg1", "neg1s"}

SeqsUpTo(S, n) == UNION {[1..k -> S] : k \in 0..n}

NoData == [given |-> FALSE, rows |-> <<>>]
DataProps(S, n) == {NoData} \cup {[given |-> TRUE, rows |-> r] : r \in SeqsUpTo(S, n)}

Terms == {<<>>, <<"l", "a", "m", "p">>, <<"A">>, <<"2">>}
FieldChoices == {<<>>, <<"name">>, <<"name", "val">>}

\* The column descriptors: every header of the model is sortable
Columns == <<[key |-> "name", sortable |-> TRUE], [key |-> "val", sortable |-> TRUE]>>
\* Column lists a caller may pass: the usual one, one with a header that
\* is not sortable, and two with a key twice
ColumnConfigs ==
    {Columns,
     <<[key |-> "name", sortable |-> TRUE], [key |-> "val", sortable |-> FALSE]>>,
     <<[key |-> "name", sortable |-> TRUE], [key |-> "name", sortable |-> TRUE]>>,
     <<[key |-> "val", sortable |-> TRUE], [key |-> "name", sortable |-> TRUE],
       [key |-> "val", sortable |-> FALSE]>>}
\* Variant: every header carries the click handler
AllKeysOf(cols) == {cols[i].key : i \in 1..Len(cols)}

\* The keys of the headers that carry a click handler
SortableKeysOf(cols) == {cols[i].key : i \in {j \in 1..Len(cols) : cols[j].sortable}}
SortableKeys == SortableKeysOf(Columns)
SortStates == [key : SortableKeys, direction : {"asc", "desc"}]

----------------------------------------------------------------------------
(* SearchFilter: the useSearch hook *)

\* One field of a record against the term: a nullish field never matches
FieldMatches(v, term) ==
    /\ ~IsNullish(v)
    /\ Includes(ToLowerCase(StringOf(v)), ToLowerCase(term))

\* Variant: a record matches when no field is listed
RecordMatchesNoFields(r, term, fields) ==
    \/ fields = <<>>
    \/ \E i \in 1..Len(fields) : FieldMatches(r[fields[i]], term)

\* Variant: every listed field has to match
RecordMatchesAll(r, term, fields) ==
    \A i \in 1..Len(fields) : FieldMatches(r[fields[i]], term)

\* A record matches when any of the listed fields does
RecordMatches(r, term, fields) ==
    \E i \in 1..Len(fields) : FieldMatches(r[fields[i]], term)

\* RecordMatches of every record, term and field list of the model, computed once
MatchTable ==
    [id \in RowNames |-> [term \in Terms |-> [fields \in FieldChoices |->
        RecordMatches(Row[id], term, fields)]]]

\* Variant: a record is kept once per matching field
RECURSIVE FilterRowsPerField(_, _, _)
FilterRowsPerField(records, term, fields) ==
    IF records = <<>> THEN <<>>
    ELSE [i \in 1..Cardinality({j \in 1..Len(fields) :
                                  FieldMatches(Row[Head(records)][fields[j]], term)})
             |-> Head(records)]
         \o FilterRowsPerField(Tail(records), term, fields)

RECURSIVE FilterRows(_, _, _)
FilterRows(records, term, fields) ==
    IF records = <<>> THEN <<>>
    ELSE (IF MatchTable[Head(records)][term][fields]
          THEN <<Head(records)>> ELSE <<>>)
         \o FilterRows(Tail(records), term, fields)

\* Variant: the empty term is searched for like any other
FilterAlways(records, term, fields) == FilterRows(records, term, fields)

\* filter(records, term, fields): the input itself for an empty term
Filter(records, term, fields) ==
    IF term = <<>> THEN records ELSE FilterRows(records, term, fields)

----------------------------------------------------------------------------
(* SortEngine: the sortedData memo *)

NoKey == "null"

\* The collation elements of a string at primary strength with numeric
\* ordering: a run of digits is one element ordered by its value, case is
\* ignored, punctuation sorts before digits and digits before letters.
LetterRank(c) ==
    CHOOSE i \in 1..Len(LowerLetters) : LowerLetters[i] = ToLowerChar(c)

RECURSIVE DigitRunEnd(_, _)
DigitRunEnd(s, i) ==
    IF i <= Len(s) /\ IsDigit(s[i]) THEN DigitRunEnd(s, i + 1) ELSE i

RECURSIVE DigitRunValue(_, _, _, _)
DigitRunValue(s, i, j, acc) ==
    IF i >= j THEN acc ELSE DigitRunValue(s, i + 1, j, (acc * 10) + DigitVal(s[i]))

\* Variant: every digit is an element of its own
RECURSIVE CollationElementsPerDigit(_, _)
CollationElementsPerDigit(s, i) ==
    IF i > Len(s) THEN <<>>
    ELSE IF IsDigit(s[i])
         THEN <<[class |-> 1, weight |-> DigitVal(s[i])]>>
              \o CollationElementsPerDigit(s, i + 1)
    ELSE IF IsLetter(s[i])
         THEN <<[class |-> 2, weight |-> LetterRank(s[i])]>>
              \o CollationElementsPerDigit(s, i + 1)
    ELSE <<[class |-> 0, weight |-> 0]>> \o CollationElementsPerDigit(s, i + 1)

RECURSIVE CollationElements(_, _)
CollationElements(s, i) ==
    IF i > Len(s) THEN <<>>
    ELSE IF IsDigit(s[i])
         THEN LET j == DigitRunEnd(s, i)
              IN <<[class |-> 1, weight |-> DigitRunValue(s, i, j, 0)]>>
                 \o CollationElements(s, j)
    ELSE IF IsLetter(s[i])
         THEN <<[class |-> 2, weight |-> LetterRank(s[i])]>> \o CollationElements(s, i + 1)
    ELSE <<[class |-> 0, weight |-> 0]>> \o CollationElements(s, i + 1)

CompareElement(x, y) ==
    IF x.class # y.class THEN (IF x.class < y.class THEN -1 ELSE 1)
    ELSE IF x.weight < y.weight THEN -1
    ELSE IF x.weight > y.weight THEN 1
    ELSE 0

RECURSIVE CompareElements(_, _)
CompareElements(xs, ys) ==
    IF xs = <<>> THEN (IF ys = <<>> THEN 0 ELSE -1)
    ELSE IF ys = <<>> THEN 1
    ELSE LET c == CompareElement(Head(xs), Head(ys))
         IN IF c # 0 THEN c ELSE CompareElements(Tail(xs), Tail(ys))

\* a.localeCompare(b, undefined, { numeric: true, sensitivity: 'base' })
LocaleCompare(a, b) ==
    CompareElements(CollationElements(a, 1), CollationElements(b, 1))

\* Variant: the whole comparison negated for a descending sort, nulls included
SortCompareNegated(a, b, srt) ==
    LET aVal == a[srt.key]
        bVal == b[srt.key]
        cmp == IF IsNullish(aVal) /\ IsNullish(bVal) THEN 0
               ELSE IF IsNullish(aVal) THEN 1
               ELSE IF IsNullish(bVal) THEN -1
               ELSE IF aVal.t = "num" /\ bVal.t = "num"
               THEN aVal.n - bVal.n
               ELSE LocaleCompare(StringOf(aVal), StringOf(bVal))
    IN IF srt.direction = "asc" THEN cmp ELSE 0 - cmp

\* The comparator handed to Array.prototype.sort
SortCompare(a, b, srt) ==
    LET aVal == a[srt.key]
        bVal == b[srt.key]
        cmp == IF aVal.t = "num" /\ bVal.t = "num"
               THEN aVal.n - bVal.n
               ELSE LocaleCompare(StringOf(aVal), StringOf(bVal))
    IN IF IsNullish(aVal) /\ IsNullish(bVal) THEN 0
       ELSE IF IsNullish(aVal) THEN 1
       ELSE IF IsNullish(bVal) THEN -1
       ELSE IF srt.direction = "asc" THEN cmp ELSE 0 - cmp

\* SortCompare of every pair of records under every sort state, computed once
CompareTable ==
    [srt \in SortStates |-> [a \in RowNames |-> [b \in RowNames |->
        SortCompare(Row[a], Row[b], srt)]]]

\* Array.prototype.sort leaves the order implementation-defined when the
\* comparator is not a consistent one, so the result is the engine's: a
\* stable insertion sort (SpiderMonkey's sort of a short array) or a
\* bottom-up merge sort (JavaScriptCore's). The two agree whenever the
\* comparator is consistent over the array.
Engines == {"insertion", "merge"}

\* Insertion: x goes after the last element not greater than it.
RECURSIVE InsertSorted(_, _, _)
InsertSorted(sorted, x, srt) ==
    IF sorted = <<>> THEN <<x>>
    ELSE LET n == Len(sorted)
         IN IF CompareTable[srt][sorted[n]][x] > 0
            THEN InsertSorted(SubSeq(sorted, 1, n - 1), x, srt) \o <<sorted[n]>>
            ELSE sorted \o <<x>>

RECURSIVE InsertionSort(_, _, _)
InsertionSort(arr, n, srt) ==
    IF n = 0 THEN <<>>
    ELSE InsertSorted(InsertionSort(arr, n - 1, srt), arr[n], srt)

\* Merge of two adjacent runs: the right head is taken only when it
\* compares below the left head.
RECURSIVE Merge(_, _, _)
Merge(left, right, srt) ==
    IF left = <<>> THEN right
    ELSE IF right = <<>> THEN left
    ELSE IF CompareTable[srt][Head(right)][Head(left)] < 0
         THEN <<Head(right)>> \o Merge(left, Tail(right), srt)
         ELSE <<Head(left)>> \o Merge(Tail(left), right, srt)

\* One pass over the array: the runs of `width` elements merged in pairs
RECURSIVE MergePass(_, _, _, _)
MergePass(src, width, srt, i) ==
    IF i >= Len(src) THEN <<>>
    ELSE LET mid == Min(i + width, Len(src))
             end == Min(i + (2 * width), Len(src))
         IN Merge(SubSeq(src, i + 1, mid), SubSeq(src, mid + 1, end), srt)
            \o MergePass(src, width, srt, i + (2 * width))

RECURSIVE MergeSort(_, _, _)
MergeSort(src, width, srt) ==
    IF width >= Len(src) THEN src
    ELSE MergeSort(MergePass(src, width, srt, 0), 2 * width, srt)

\* [...arr].sort(compare) on the given engine
SortOn(eng, arr, srt) ==
    IF eng = "merge" THEN MergeSort(arr, 1, srt)
    ELSE InsertionSort(arr, Len(arr), srt)

\* [...arr].sort(compare) on the engine the page runs on
ArraySort(arr, srt) == SortOn(engine, arr, srt)

\* Variant: without a sort key the first column is sorted by
SortStageDefaultKey(filtered, srt) ==
    IF srt.key = NoKey
    THEN [input |-> filtered,
          output |-> ArraySort(filtered, [key |-> Columns[1].key, direction |-> srt.direction])]
    ELSE [input |-> filtered, output |-> ArraySort(filtered, srt)]

\* Variant: the array handed in is sorted in place
SortStageInPlace(filtered, srt) ==
    IF srt.key = NoKey THEN [input |-> filtered, output |-> filtered]
    ELSE [input |-> ArraySort(filtered, srt), output |-> ArraySort(filtered, srt)]

\* The body of the sortedData memo: what it returns (output) and what the
\* array it was handed holds afterwards (input). The spread copy is what
\* is sorted, so the input is left as it was.
SortStage(filtered, srt) ==
    IF srt.key = NoKey THEN [input |-> filtered, output |-> filtered]
    ELSE [input |-> filtered, output |-> ArraySort(filtered, srt)]

\* Variant: a click on another column keeps the direction
HandleSortKeepDirection(prev, colKey) ==
    IF prev.key = colKey
    THEN [key |-> colKey, direction |-> IF prev.direction = "asc" THEN "desc" ELSE "asc"]
    ELSE [key |-> colKey, direction |-> prev.direction]

\* handleSort(colKey) applied to the previous sort state
HandleSortState(prev, colKey) ==
    IF prev.key = colKey
    THEN [key |-> colKey, direction |-> IF prev.direction = "asc" THEN "desc" ELSE "asc"]
    ELSE [key |-> colKey, direction |-> "asc"]

----------------------------------------------------------------------------
(* Paginator: the usePagination hook *)

\* Variant: an empty collection has one page
TotalPagesAtLeastOne(total, size) == Max(1, (total + size - 1) \div size)

\* Variant: the partial last page is not counted
TotalPagesFloor(total, size) ==
    IF total = 0 THEN 0 ELSE Max(1, total \div size)

TotalPagesOf(total, size) ==
    IF total = 0 THEN 0 ELSE Max(1, (total + size - 1) \div size)

\* pageIndex clamped into [0, totalPages - 1], 0 for an empty collection
ClampPage(p, totalPages) ==
    IF totalPages = 0 THEN 0 ELSE Min(Max(p, 0), totalPages - 1)

PageSlice(items, size, p) ==
    SubSeq(items, (p * size) + 1, Min((p + 1) * size, Len(items)))

\* Variant: the end of a full page, whatever the collection holds
EndIndexUnclamped(total, size, p) == IF total = 0 THEN 0 ELSE (p + 1) * size

StartIndexOf(total, size, p) == IF total = 0 THEN 0 ELSE (p * size) + 1
EndIndexOf(total, size, p) == IF total = 0 THEN 0 ELSE Min((p + 1) * size, total)

----------------------------------------------------------------------------
(* DataTable: one render of the component *)

\* const safeData = data || []
SafeData(d) == IF d.given THEN d.rows ELSE <<>>

\* Variants: the raw collection, or the unsorted filter output, paginated instead
PaginatedItemsRaw(sorted, filtered, safe) == safe
PaginatedItemsFiltered(sorted, filtered, safe) == filtered

\* The collection DataTable hands to usePagination
PaginatedItems(sorted, filtered, safe) == sorted

\* The views of the current state
Total == Len(PaginatedItems(sortedData, filteredData, SafeData(data)))
TotalPages == TotalPagesOf(Total, pageSize)
PageData == PageSlice(PaginatedItems(sortedData, filteredData, SafeData(data)), pageSize, page)
StartIndex == StartIndexOf(Total, pageSize, page)
EndIndex == EndIndexOf(Total, pageSize, page)
hasFirst == page > 0
\* Variant: the last page counts as having a next one
hasLastInclusive == page < TotalPages
hasLast == page < TotalPages - 1

\* A render with props d, search term `term`, sort state `srt` and requested
\* page `pg`: filter, sort, paginate, with the page index clamped. The result
\* is the state the render leaves. With an empty term the filter returns the
\* raw array itself, so whatever the sort stage does to its input is done to
\* the raw array.
\* Variant: the sortedData memo depends on the sort state alone
RenderedSortOnly(d, term, srt, pg, stage) ==
    [data |-> d,
     searchTerm |-> term,
     sort |-> srt,
     filteredData |-> stage.input,
     sortedData |-> IF srt = sort THEN sortedData ELSE stage.output,
     page |-> ClampPage(pg, TotalPagesOf(Len(stage.output), pageSize))]

Rendered(d, term, srt, pg, stage) ==
    [data |-> IF d.given /\ term = <<>> THEN [d EXCEPT !.rows = stage.input] ELSE d,
     searchTerm |-> term,
     sort |-> srt,
     filteredData |-> stage.input,
     sortedData |-> stage.output,
     page |-> ClampPage(pg, TotalPagesOf(
                  Len(PaginatedItems(stage.output, stage.input, SafeData(d))), pageSize))]

Render(d, term, srt, pg) ==
    Rendered(d, term, srt, pg, SortStage(Filter(SafeData(d), term, searchFields), srt))

\* The step to the state a render leaves; the props other than data stay
Becomes(next) ==
    /\ data' = next.data
    /\ searchTerm' = next.searchTerm
    /\ sort' = next.sort
    /\ filteredData' = next.filteredData
    /\ sortedData' = next.sortedData
    /\ page' = next.page
    /\ UNCHANGED <<searchFields, pageSize, columns, engine>>
    /\ UNCHANGED otherVars

----------------------------------------------------------------------------
(* Operations: what each leaves, and the step it takes *)

\* setSearchTerm(term)
AfterSetSearchTerm(term) == Render(data, term, sort, page)
SetSearchTerm(term) == \E next \in {AfterSetSearchTerm(term)} : Becomes(next)

\* A click on a sortable column header: handleSort(colKey)
AfterHandleSort(colKey) == Render(data, searchTerm, HandleSortState(sort, colKey), page)
HandleSort(colKey) == \E next \in {AfterHandleSort(colKey)} : Becomes(next)

\* Two header clicks handled before a render: setSort is given an updater
\* function, and the second updater is applied to what the first returned
AfterHandleSortBatch(first, second) ==
    Render(data, searchTerm, HandleSortState(HandleSortState(sort, first), second), page)
HandleSortBatch(first, second) ==
    \E next \in {AfterHandleSortBatch(first, second)} : Becomes(next)

\* usePagination's nextPage and prevPage
NextPageIndex(p, totalPages) == IF p < totalPages - 1 THEN p + 1 ELSE p
PrevPageIndex(p) == IF p > 0 THEN p - 1 ELSE p

AfterNextPage == Render(data, searchTerm, sort, NextPageIndex(page, TotalPages))
AfterPrevPage == Render(data, searchTerm, sort, PrevPageIndex(page))

\* Variant: a move to the next page clears the search
OnClickNextClearingSearch == Render(data, <<>>, sort, NextPageIndex(page, TotalPages))

\* Variant: the Next button wired to the Previous handler
OnClickNextSwapped == AfterPrevPage

\* The handlers of the Previous and the Next button
OnClickPrevious == AfterPrevPage
OnClickNext == AfterNextPage

\* nextPage() and prevPage(), from the buttons or from any other caller
NextPage == \E next \in {OnClickNext} : Becomes(next)
PrevPage == \E next \in {OnClickPrevious} : Becomes(next)

\* The owner renders the table with a new `data` prop
AfterSetData(d) == Render(d, searchTerm, sort, page)
SetData(d) == \E next \in {AfterSetData(d)} : Becomes(next)

\* Which stages a render runs. useSearch hands back the array of its last
\* run unless its collection or its term is another one; a missing data
\* prop makes `data || []` a new array on every render. The model's
\* collections are values: a collection equal to the current one stands for
\* the same array.
FilteredArrayChanges(d, term) == ~d.given \/ d # data \/ term # searchTerm

\* Variant: no memo, the sort stage runs on every render
SortMemoRunsEveryRender(d, term, srt) == TRUE

\* useMemo(..., [filteredData, sort.key, sort.direction]) runs its function
\* when one of the three is not the one of the render before
SortMemoRuns(d, term, srt) ==
    \/ FilteredArrayChanges(d, term)
    \/ srt.key # sort.key
    \/ srt.direction # sort.direction

\* The stages run by an operation: none when it causes no render
StagesRun(renders, d, term, srt) ==
    [filter |-> renders /\ FilteredArrayChanges(d, term),
     sort |-> renders /\ SortMemoRuns(d, term, srt)]

\* A state setter called with the value the state holds causes no render
StagesOfSetSearchTerm(term) == StagesRun(term # searchTerm, data, term, sort)
StagesOfHandleSort(colKey) == StagesRun(TRUE, data, searchTerm, HandleSortState(sort, colKey))
StagesOfNextPage ==
    StagesRun(NextPageIndex(page, TotalPages) # page, data, searchTerm, sort)
StagesOfPrevPage == StagesRun(PrevPageIndex(page) # page, data, searchTerm, sort)
StagesOfSetData(d) == StagesRun(TRUE, d, searchTerm, sort)

\* pageSize = 50 when the caller passes none
DefaultPageSize == 50

\* A component that is not on the page
NotRendered == [rendered |-> FALSE]

InitWith(props, sizes, cols, engines) ==
    /\ detail = NotRendered
    /\ settings = NotRendered
    /\ hashHistory = NotRendered
    /\ data \in props
    /\ searchFields \in FieldChoices
    /\ pageSize \in sizes
    /\ columns \in cols
    /\ engine \in engines
    /\ searchTerm = <<>>
    /\ sort = [key |-> NoKey, direction |-> "asc"]
    /\ page = 0
    /\ filteredData = SafeData(data)
    /\ sortedData = SafeData(data)

ControllerData == DataProps(Pool, MaxLen)
FixedData == DataProps(RichPool, MaxRows)

\* The records of the controller and of the fixed-collection specification
\* compare consistently, so that every engine sorts them alike: one stands
\* for all.
Init == InitWith(ControllerData, 1..MaxPageSize, {Columns}, {"insertion"})

Next ==
    \/ \E term \in Terms : SetSearchTerm(term)
    \/ \E colKey \in SortableKeysOf(columns) : HandleSort(colKey)
    \/ NextPage
    \/ PrevPage
    \/ \E d \in ControllerData : SetData(d)

Spec == Init /\ [][Next]_vars

\* The same table when two header clicks may be handled in one step
NextBatched ==
    \/ Next
    \/ \E first \in SortableKeysOf(columns) : \E second \in SortableKeysOf(columns) :
          HandleSortBatch(first, second)

SpecBatched == Init /\ [][NextBatched]_vars

\* A table constructed without a pageSize whose raw collection stays the one
\* it was constructed with: every record is on the one page, and the
\* operations left are the search and the sort.
InitFixed == InitWith(FixedData, {DefaultPageSize}, {Columns}, {"insertion"})

NextFixed ==
    \/ \E term \in Terms : SetSearchTerm(term)
    \/ \E colKey \in SortableKeysOf(columns) : HandleSort(colKey)

SpecFixed == InitFixed /\ [][NextFixed]_vars

\* A table over a collection whose `val` column holds numbers and strings
\* side by side, on either engine; the operation left is the sort.
MixedData == DataProps(MixedPool, MaxMixed)

InitMixed == InitWith(MixedData, {DefaultPageSize}, {Columns}, Engines)

NextMixed == \E colKey \in SortableKeysOf(columns) : HandleSort(colKey)

SpecMixed == InitMixed /\ [][NextMixed]_vars

\* A table over a collection with tied sort values, on either engine
TiesData == DataProps(TiesPool, MaxTies)

InitTies == InitWith(TiesData, {DefaultPageSize}, {Columns}, Engines)

NextTies == \E colKey \in SortableKeysOf(columns) : HandleSort(colKey)

SpecTies == InitTies /\ [][NextTies]_vars

\* Construction with whatever configuration the caller passes. The page
\* size goes to usePagination, which refuses a non-positive one; the column
\* list goes nowhere but into the header and the cells, and nothing looks
\* at its keys.
PaginationAccepts(size) == size > 0
ConfigSizes == {size \in (0 - MaxPageSize)..MaxPageSize : PaginationAccepts(size)}

InitConfig == InitWith(ControllerData, ConfigSizes, ColumnConfigs, {"insertion"})

SpecConfig == InitConfig /\ [][Next]_vars

----------------------------------------------------------------------------
(* CapabilityCard and CapabilityDetail: the promote and archive buttons *)

\* The state of a page that shows no table
TableNotRendered ==
    /\ data = NotRendered
    /\ searchFields = NotRendered
    /\ pageSize = NotRendered
    /\ columns = NotRendered
    /\ engine = NotRendered
    /\ searchTerm = NotRendered
    /\ sort = NotRendered
    /\ page = NotRendered
    /\ filteredData = NotRendered
    /\ sortedData = NotRendered

Statuses == {"candidate", "promoted", "archived"}
Actions == {"promote", "archive"}

\* The status the server gives the capability when the request succeeds
StatusAfter(action) == IF action = "promote" THEN "promoted" ELSE "archived"

\* The Promote button is rendered unless the status is promoted, the
\* Archive button unless it is archived; both are disabled while busy
ButtonShown(action, status) == status # StatusAfter(action)
ButtonEnabled(action) ==
    /\ detail.expanded
    /\ ButtonShown(action, detail.status)
    /\ detail.busy = "null"

\* The requests in flight whose CapabilityDetail is gone, with the one of
\* the instance that is unmounted now (if it has one)
Orphaned(d) == IF d.request = "none" THEN d.orphans ELSE Append(d.orphans, d.request)

\* The card renders CapabilityDetail while expanded; an instance that is
\* unmounted loses its busy state, a new one starts with busy = null
Unmounted(d) ==
    [d EXCEPT !.expanded = FALSE, !.busy = "null", !.request = "none",
              !.orphans = Orphaned(d)]

InitDetail ==
    /\ TableNotRendered
    /\ settings = NotRendered
    /\ hashHistory = NotRendered
    /\ \E status \in Statuses :
          detail = [rendered |-> TRUE, expanded |-> FALSE, busy |-> "null",
                    request |-> "none", orphans |-> <<>>,
                    status |-> status, serverStatus |-> status, refetching |-> FALSE,
                    started |-> 0, succeeded |-> 0, refetches |-> 0]

\* A click on the card: setExpanded(!expanded)
ToggleCard ==
    /\ detail' = IF detail.expanded THEN Unmounted(detail)
                 ELSE [detail EXCEPT !.expanded = TRUE]
    /\ UNCHANGED <<tableVars, settings, hashHistory>>

\* handleAction(action) up to its await: setBusy(action), the request sent
ClickAction(action) ==
    /\ ButtonEnabled(action)
    /\ detail.started < MaxRequests
    /\ detail' = [detail EXCEPT !.busy = action, !.request = action,
                                !.started = @ + 1]
    /\ UNCHANGED <<tableVars, settings, hashHistory>>

\* The request of the mounted instance succeeds: onAction(), then
\* setBusy(null) in the finally block
RequestSucceeds ==
    /\ detail.request # "none"
    /\ detail' = [detail EXCEPT !.busy = "null", !.request = "none",
                                !.serverStatus = StatusAfter(detail.request),
                                !.refetching = TRUE,
                                !.succeeded = @ + 1, !.refetches = @ + 1]
    /\ UNCHANGED <<tableVars, settings, hashHistory>>

\* The request of the mounted instance fails: the error is logged, then
\* setBusy(null) in the finally block
RequestFails ==
    /\ detail.request # "none"
    /\ detail' = [detail EXCEPT !.busy = "null", !.request = "none"]
    /\ UNCHANGED <<tableVars, settings, hashHistory>>

RemoveAt(seq, i) == SubSeq(seq, 1, i - 1) \o SubSeq(seq, i + 1, Len(seq))

\* A request whose instance is gone settles: onAction() is still called on
\* success, and setBusy(null) reaches no mounted instance
OrphanSucceeds(i) ==
    /\ detail' = [detail EXCEPT !.orphans = RemoveAt(@, i),
                                !.serverStatus = StatusAfter(detail.orphans[i]),
                                !.refetching = TRUE,
                                !.succeeded = @ + 1, !.refetches = @ + 1]
    /\ UNCHANGED <<tableVars, settings, hashHistory>>

OrphanFails(i) ==
    /\ detail' = [detail EXCEPT !.orphans = RemoveAt(@, i)]
    /\ UNCHANGED <<tableVars, settings, hashHistory>>

\* The refetch started by onAction delivers the capability with the status
\* the server holds. A capability whose status changed is listed in another
\* section of the page, so its card is a new one, collapsed.
RefetchArrives ==
    /\ detail.refetching
    /\ detail' = IF detail.serverStatus = detail.status
                 THEN [detail EXCEPT !.refetching = FALSE]
                 ELSE [Unmounted(detail) EXCEPT !.refetching = FALSE,
                                                !.status = detail.serverStatus]
    /\ UNCHANGED <<tableVars, settings, hashHistory>>

NextDetail ==
    \/ ToggleCard
    \/ \E action \in Actions : ClickAction(action)
    \/ RequestSucceeds
    \/ RequestFails
    \/ \E i \in 1..Len(detail.orphans) : OrphanSucceeds(i)
    \/ \E i \in 1..Len(detail.orphans) : OrphanFails(i)
    \/ RefetchArrives

SpecDetail == InitDetail /\ [][NextDetail]_vars

----------------------------------------------------------------------------
(* DiscoverySettings: the Save button and its status message *)

\* setTimeout(() => setSaveMsg(null), 2000)
SaveMsgTimeout == 2000
\* The longest step of the clock, in milliseconds
TickMs == SaveMsgTimeout \div TicksPerTimeout

NoClear == [by |-> "none", msg |-> "null", age |-> 0]

\* saveMsg: "null", "Saved" or "Error" (the text after "Error: " left out).
\* age: the milliseconds since saveMsg was set. timers: the milliseconds
\* left of every armed clear timer. cleared: who replaced the last message
\* by null, which message it was and how old.
InitSettings ==
    /\ TableNotRendered
    /\ detail = NotRendered
    /\ hashHistory = NotRendered
    /\ settings = [rendered |-> TRUE, saving |-> FALSE, saveMsg |-> "null", age |-> 0,
                   timers |-> <<>>, cleared |-> NoClear, saves |-> 0]

\* What setSaveMsg(null) by `who` records about the message it removes
Clearing(st, who) ==
    IF st.saveMsg = "null" THEN st.cleared
    ELSE [by |-> who, msg |-> st.saveMsg, age |-> st.age]

\* handleSave up to its await: setSaving(true), setSaveMsg(null), the
\* request sent. The button is disabled while saving.
ClickSave ==
    /\ ~settings.saving
    /\ settings.saves < MaxSaves
    /\ settings' = [settings EXCEPT !.saving = TRUE, !.saveMsg = "null", !.age = 0,
                                    !.cleared = Clearing(settings, "save"),
                                    !.saves = @ + 1]
    /\ UNCHANGED <<tableVars, detail, hashHistory>>

\* putJson resolves: setSaveMsg('Saved'), the clear timer armed, and
\* setSaving(false) in the finally block
SaveSucceeds ==
    /\ settings.saving
    /\ settings' = [settings EXCEPT !.saving = FALSE, !.saveMsg = "Saved", !.age = 0,
                                    !.timers = Append(@, SaveMsgTimeout)]
    /\ UNCHANGED <<tableVars, detail, hashHistory>>

\* putJson rejects: setSaveMsg(`Error: ...`), no timer, setSaving(false)
SaveFails ==
    /\ settings.saving
    /\ settings' = [settings EXCEPT !.saving = FALSE, !.saveMsg = "Error", !.age = 0]
    /\ UNCHANGED <<tableVars, detail, hashHistory>>

\* An armed timer is due: its callback runs setSaveMsg(null)
TimerFires(i) ==
    /\ settings.timers[i] = 0
    /\ settings' = [settings EXCEPT !.saveMsg = "null", !.age = 0,
                                    !.cleared = Clearing(settings, "timer"),
                                    !.timers = RemoveAt(@, i)]
    /\ UNCHANGED <<tableVars, detail, hashHistory>>

\* The time to the next clock step: no further than the next due timer
StepMs(timers) ==
    Min(TickMs, CHOOSE t \in {timers[i] : i \in 1..Len(timers)} :
                    \A i \in 1..Len(timers) : t <= timers[i])

\* Time passes, as long as a timer is armed and none is due
Tick ==
    /\ settings.timers # <<>>
    /\ \A i \in 1..Len(settings.timers) : settings.timers[i] > 0
    /\ \E step \in {StepMs(settings.timers)} :
        settings' = [settings EXCEPT
                       !.timers = [i \in 1..Len(settings.timers) |-> settings.timers[i] - step],
                       !.age = IF settings.saveMsg = "null" THEN 0 ELSE @ + step]
    /\ UNCHANGED <<tableVars, detail, hashHistory>>

NextSettings ==
    \/ ClickSave
    \/ SaveSucceeds
    \/ SaveFails
    \/ \E i \in 1..Len(settings.timers) : TimerFires(i)
    \/ Tick

SpecSettings == InitSettings /\ [][NextSettings]_vars

----------------------------------------------------------------------------
(* createHashHistory: listen, unsubscribe and notify *)

\* The functions passed to listen()
Callbacks == {"cb1", "cb2"}
\* What makes the history notify: the hashchange event or replace(path)
Causes == {"hashchange", "replace"}

NoCalls == [cb \in Callbacks |-> 0]

\* listeners: the array of callbacks. regs: one entry per listen() call, in
\* order, with its callback and whether its unsubscribe function was ever
\* called. notifying, k, len: the listeners.forEach loop of notify, its
\* index and the array length it read when it started. calls: how often
\* each callback was invoked by the current (or last) notification.
\* started: the registrations subscribed when that notification started.
\* completed: a notification has run to its end.
InitHistory ==
    /\ TableNotRendered
    /\ detail = NotRendered
    /\ settings = NotRendered
    /\ hashHistory = [rendered |-> TRUE, listeners |-> <<>>, regs |-> <<>>,
                      notifying |-> FALSE, cause |-> "none", k |-> 0, len |-> 0,
                      calls |-> NoCalls, started |-> {}, completed |-> FALSE]

\* listeners.indexOf(callback), counted from 1; 0 when absent
IndexOf(listeners, cb) ==
    IF \E i \in 1..Len(listeners) : listeners[i] = cb
    THEN CHOOSE i \in 1..Len(listeners) :
             listeners[i] = cb /\ \A j \in 1..(i - 1) : listeners[j] # cb
    ELSE 0

\* The function returned by the r-th listen(): idx = indexOf(callback);
\* if (idx >= 0) splice(idx, 1)
UnsubscribeIn(h, r) ==
    LET idx == IndexOf(h.listeners, h.regs[r].cb)
    IN  [h EXCEPT !.listeners = IF idx > 0 THEN RemoveAt(@, idx) ELSE @,
                  !.regs[r].unsubscribed = TRUE]

\* listen(callback): listeners.push(callback)
Listen(cb) ==
    /\ ~hashHistory.notifying
    /\ Len(hashHistory.regs) < MaxListeners
    /\ hashHistory' = [hashHistory EXCEPT
                          !.listeners = Append(@, cb),
                          !.regs = Append(@, [cb |-> cb, unsubscribed |-> FALSE])]
    /\ UNCHANGED <<tableVars, detail, settings>>

\* An unsubscribe function called outside a notification, for the first
\* time or again
Unsubscribe(r) ==
    /\ ~hashHistory.notifying
    /\ hashHistory' = UnsubscribeIn(hashHistory, r)
    /\ UNCHANGED <<tableVars, detail, settings>>

\* notify() starts: listeners.forEach reads the length of the array
StartNotify(cause) ==
    /\ ~hashHistory.notifying
    /\ hashHistory' = [hashHistory EXCEPT
                          !.notifying = TRUE, !.cause = cause, !.k = 0,
                          !.len = Len(hashHistory.listeners),
                          !.calls = NoCalls,
                          !.started = {r \in 1..Len(hashHistory.regs) :
                                           ~hashHistory.regs[r].unsubscribed},
                          !.completed = FALSE]
    /\ UNCHANGED <<tableVars, detail, settings>>

\* One iteration of forEach: index k is visited when the array still has
\* it, and the callback invoked there calls no unsubscribe function
\* (r = 0) or the one of registration r
StepNotify(r) ==
    /\ hashHistory.notifying
    /\ hashHistory.k < hashHistory.len
    /\ IF hashHistory.k < Len(hashHistory.listeners)
       THEN LET cb == hashHistory.listeners[hashHistory.k + 1]
                called == [hashHistory EXCEPT !.calls[cb] = @ + 1, !.k = @ + 1]
            IN  hashHistory' = IF r = 0 THEN called ELSE UnsubscribeIn(called, r)
       ELSE /\ r = 0
            /\ hashHistory' = [hashHistory EXCEPT !.k = @ + 1]
    /\ UNCHANGED <<tableVars, detail, settings>>

\* forEach has passed the length it read: notify() returns
EndNotify ==
    /\ hashHistory.notifying
    /\ hashHistory.k = hashHistory.len
    /\ hashHistory' = [hashHistory EXCEPT !.notifying = FALSE, !.completed = TRUE]
    /\ UNCHANGED <<tableVars, detail, settings>>

NextHistory ==
    \/ \E cb \in Callbacks : Listen(cb)
    \/ \E r \in 1..Len(hashHistory.regs) : Unsubscribe(r)
    \/ \E cause \in Causes : StartNotify(cause)
    \/ \E r \in 0..Len(hashHistory.regs) : StepNotify(r)
    \/ EndNotify

SpecHistory == InitHistory /\ [][NextHistory]_vars

----------------------------------------------------------------------------
(* Properties *)

\* The filtered+sorted collection of the current state and its page count
FilteredSorted ==
    SortStage(Filter(SafeData(data), searchTerm, searchFields), sort).output
FilteredSortedPages == TotalPagesOf(Len(FilteredSorted), pageSize)

\* C1: whenever the filtered+sorted collection has pages, the page index is
\* one of them: 0 <= pageIndex <= totalPages - 1.
C1_PageIndexInRange ==
    FilteredSortedPages > 0 => (0 <= page /\ page <= FilteredSortedPages - 1)

\* A narrowed search shown on its last page, which is not the first
C1_Witness ==
    /\ searchTerm # <<>>
    /\ Len(FilteredSorted) < Len(SafeData(data))
    /\ page >= 1
    /\ page = FilteredSortedPages - 1

RECURSIVE ConcatPages(_, _, _, _)
ConcatPages(items, size, p, totalPages) ==
    IF p >= totalPages THEN <<>>
    ELSE PageSlice(items, size, p) \o ConcatPages(items, size, p + 1, totalPages)

\* C2: the page slices of pages 0..totalPages-1 of the table, concatenated in
\* order, are the filtered+sorted collection: nothing left out, nothing twice.
C2_PartitionLaw ==
    ConcatPages(PaginatedItems(sortedData, filteredData, SafeData(data)),
                pageSize, 0, TotalPages) = FilteredSorted

\* Several pages, the last one partial, over a collection the sort reordered
C2_Witness ==
    /\ TotalPages >= 2
    /\ Total % pageSize # 0
    /\ sort.key # NoKey
    /\ FilteredSorted # filteredData

\* The page index `next` holds is the old one clamped to the pages `next` has
ClampedIn(next) ==
    LET last == Max(TotalPagesOf(Len(next.sortedData), pageSize) - 1, 0)
    IN page > last => next.page = last

\* C3: a recompute that leaves fewer pages than the page index needs puts the
\* index on the new last page (on 0 when nothing is left), when a search-term
\* change caused it and when a new raw collection did.
C3_ClampOnRecompute ==
    /\ \A term \in Terms : ClampedIn(AfterSetSearchTerm(term))
    /\ \A d \in ControllerData : ClampedIn(AfterSetData(d))

\* On page 2, with a search term that leaves a single page of matches
C3_Witness ==
    /\ page = 2
    /\ \E term \in Terms :
          /\ Len(AfterSetSearchTerm(term).sortedData) > 0
          /\ Len(AfterSetSearchTerm(term).sortedData) <= pageSize
          /\ AfterSetSearchTerm(term).page = 0

\* C4: nextPage moves the page index up by one below the last page and leaves
\* it on the last page; prevPage moves it down by one above page 0 and leaves
\* it on page 0.
C4_Navigation ==
    /\ OnClickNext.page = IF page < FilteredSortedPages - 1 THEN page + 1 ELSE page
    /\ OnClickPrevious.page = IF page > 0 THEN page - 1 ELSE page

\* The last of several pages: nextPage stays, prevPage goes back
C4_Witness ==
    /\ page >= 1
    /\ page = FilteredSortedPages - 1
    /\ OnClickNext.page = page
    /\ OnClickPrevious.page = page - 1

\* The sort field of the i-th record of a collection
SortValue(items, i, key) == Row[items[i]][key]

NullsLastIn(items, key) ==
    \A i \in 1..Len(items) : \A j \in 1..Len(items) :
        (i < j /\ IsNullish(SortValue(items, i, key)))
            => IsNullish(SortValue(items, j, key))

ExampleABC == <<"lamp", "lamp2", "fan">>

\* C5: under a sort key, in either direction, no record whose sort field is
\* null or absent comes before a record whose sort field has a value; the
\* records A{val:5}, B{val:null}, C{val:2} come out [C, A, B] ascending and
\* [A, C, B] descending.
C5_NullsLast ==
    /\ sort.key # NoKey => NullsLastIn(sortedData, sort.key)
    /\ (filteredData = ExampleABC /\ sort = [key |-> "val", direction |-> "asc"])
          => sortedData = <<"fan", "lamp", "lamp2">>
    /\ (filteredData = ExampleABC /\ sort = [key |-> "val", direction |-> "desc"])
          => sortedData = <<"lamp", "fan", "lamp2">>

\* A descending sort of a collection that starts with a null sort field
C5_Witness ==
    /\ sort = [key |-> "val", direction |-> "desc"]
    /\ Len(filteredData) = 3
    /\ IsNullish(SortValue(filteredData, 1, "val"))
    /\ ~IsNullish(SortValue(sortedData, 1, "val"))
    /\ ~IsNullish(SortValue(sortedData, 2, "val"))
    /\ IsNullish(SortValue(sortedData, 3, "val"))

Flipped(direction) == IF direction = "asc" THEN "desc" ELSE "asc"

\* C6: a header click on the current sort key keeps the key and flips the
\* direction; a click on any other key (also from the unsorted state) sets
\* that key with direction ascending.
C6_SortToggle ==
    \A colKey \in SortableKeys :
        AfterHandleSort(colKey).sort =
            IF sort.key = colKey
            THEN [key |-> colKey, direction |-> Flipped(sort.direction)]
            ELSE [key |-> colKey, direction |-> "asc"]

\* A descending sort, from which a click on the other column sorts ascending
C6_Witness ==
    /\ sort.direction = "desc"
    /\ AfterHandleSort(sort.key).sort = [key |-> sort.key, direction |-> "asc"]
    /\ \E colKey \in SortableKeys :
          /\ colKey # sort.key
          /\ AfterHandleSort(colKey).sort = [key |-> colKey, direction |-> "asc"]

Occurs(items, id) == \E i \in 1..Len(items) : items[i] = id

\* The term occurs in the string when case is ignored
ContainsIgnoringCase(str, term) ==
    \E k \in 0..(Len(str) - Len(term)) :
        \A j \in 1..Len(term) : ToLowerChar(str[k + j]) = ToLowerChar(term[j])

\* Some listed field of the record has a value whose string form holds the term
SomeFieldHolds(id, term, fields) ==
    \E i \in 1..Len(fields) :
        /\ Row[id][fields[i]].t \in {"str", "num"}
        /\ ContainsIgnoringCase(StringOf(Row[id][fields[i]]), term)

\* C7: for a non-empty term, a record of the input is in the filter output
\* exactly when some listed field has a non-null value whose string form
\* contains the term, case ignored.
C7_FilterMatch ==
    searchTerm # <<>> =>
        \A id \in RowNames :
            Occurs(Filter(SafeData(data), searchTerm, searchFields), id)
                <=> (Occurs(SafeData(data), id) /\ SomeFieldHolds(id, searchTerm, searchFields))

\* Term "2" over name and val: one record kept for its name alone (its val
\* is null), one for its val alone, one dropped
C7_Witness ==
    /\ searchTerm = <<"2">>
    /\ searchFields = <<"name", "val">>
    /\ SafeData(data) = <<"lamp", "lamp2", "fan">>
    /\ filteredData = <<"lamp2", "fan">>

RECURSIVE IsSubsequence(_, _)
IsSubsequence(sub, items) ==
    IF sub = <<>> THEN TRUE
    ELSE IF items = <<>> THEN FALSE
    ELSE IF Head(sub) = Head(items) THEN IsSubsequence(Tail(sub), Tail(items))
    ELSE IsSubsequence(sub, Tail(items))

\* C8: for every term and field list, the filter output is a subsequence of
\* its input, so never longer than it.
C8_FilterSubsequence ==
    \A term \in Terms : \A fields \in FieldChoices :
        /\ IsSubsequence(Filter(SafeData(data), term, fields), SafeData(data))
        /\ Len(Filter(SafeData(data), term, fields)) <= Len(SafeData(data))

\* A search that keeps some records and drops others, one of the kept
\* records matching in both fields
C8_Witness ==
    /\ searchTerm = <<"2">>
    /\ searchFields = <<"name", "val">>
    /\ Occurs(filteredData, "item2")
    /\ Len(filteredData) >= 2
    /\ Len(filteredData) < Len(SafeData(data))

\* C9: with the empty term the filter returns its input, record for record,
\* for every field list, the empty one included.
C9_EmptyTermIdentity ==
    /\ \A fields \in FieldChoices : Filter(SafeData(data), <<>>, fields) = SafeData(data)
    /\ searchTerm = <<>> => filteredData = SafeData(data)

\* A re-render with the empty term over an empty field list and a collection
\* holding a record without a name
C9_Witness ==
    /\ searchTerm = <<>>
    /\ searchFields = <<>>
    /\ sort.key # NoKey
    /\ Len(SafeData(data)) >= 2
    /\ Occurs(SafeData(data), "noname")
    /\ filteredData = SafeData(data)

\* C10: the sort stage leaves the collection it is handed, and the raw
\* collection behind it, as they were: after a header click and after a
\* search-term change the raw collection is unchanged and the filtered
\* collection is the filter's output in the filter's order.
C10_SortKeepsInput ==
    /\ filteredData = Filter(SafeData(data), searchTerm, searchFields)
    /\ \A colKey \in SortableKeys :
          /\ AfterHandleSort(colKey).data = data
          /\ AfterHandleSort(colKey).filteredData = filteredData
    /\ \A term \in Terms :
          /\ AfterSetSearchTerm(term).data = data
          /\ AfterSetSearchTerm(term).filteredData = Filter(SafeData(data), term, searchFields)

\* A sort that reordered the records while the term is empty, so that the
\* array the sort was handed is the raw array
C10_Witness ==
    /\ sort.key # NoKey
    /\ searchTerm = <<>>
    /\ sortedData # filteredData
    /\ filteredData = SafeData(data)

Sign(k) == IF k < 0 THEN -1 ELSE IF k > 0 THEN 1 ELSE 0

\* The records of a collection
Members(items) == {items[i] : i \in 1..Len(items)}

\* C11: sorting the sorted collection again with the same key and direction
\* yields the same sequence.
C11_SortIdempotent ==
    sort.key # NoKey => ArraySort(sortedData, sort) = sortedData

\* C12: over the records of the collection the comparator of the current key
\* and direction is a total, consistent ordering: cmp(a,b) and cmp(b,a) have
\* opposite signs, and cmp(a,b) <= 0 and cmp(b,c) <= 0 imply cmp(a,c) <= 0.
C12_ConsistentComparator ==
    sort.key # NoKey =>
        \A a \in Members(filteredData) : \A b \in Members(filteredData) :
            /\ Sign(CompareTable[sort][a][b]) = 0 - Sign(CompareTable[sort][b][a])
            /\ \A c \in Members(filteredData) :
                  (CompareTable[sort][a][b] <= 0 /\ CompareTable[sort][b][c] <= 0)
                      => CompareTable[sort][a][c] <= 0

\* Every occurrence of record a comes before every occurrence of record b
Before(items, a, b) ==
    \A i \in 1..Len(items) : \A j \in 1..Len(items) :
        (items[i] = a /\ items[j] = b) => i < j

\* The records of a collection whose sort field is null or absent, in order
RECURSIVE NullRecords(_, _)
NullRecords(items, key) ==
    IF items = <<>> THEN <<>>
    ELSE (IF IsNullish(Row[Head(items)][key]) THEN <<Head(items)>> ELSE <<>>)
         \o NullRecords(Tail(items), key)

Ascending(key) == [key |-> key, direction |-> "asc"]
Descending(key) == [key |-> key, direction |-> "desc"]

\* C13: the direction flips the comparison of two non-null values and leaves
\* the comparison with a null as it is; two records with non-null, unequal
\* sort values stand in the descending result in the opposite order of the
\* ascending result, and the null records fill the same trailing positions,
\* in the same order, in both.
C13_DirectionFlip ==
    sort.key # NoKey =>
        LET up == SortStage(filteredData, Ascending(sort.key)).output
            down == SortStage(filteredData, Descending(sort.key)).output
            asc == CompareTable[Ascending(sort.key)]
            desc == CompareTable[Descending(sort.key)]
        IN /\ sortedData = IF sort.direction = "asc" THEN up ELSE down
           /\ \A a \in Members(filteredData) : \A b \in Members(filteredData) :
                 IF IsNullish(Row[a][sort.key]) \/ IsNullish(Row[b][sort.key])
                 THEN desc[a][b] = asc[a][b]
                 ELSE /\ desc[a][b] = 0 - asc[a][b]
                      /\ asc[a][b] # 0 => (Before(up, a, b) <=> Before(down, b, a))
           /\ \A i \in 1..Len(up) :
                 IsNullish(SortValue(up, i, sort.key)) <=> IsNullish(SortValue(down, i, sort.key))
           /\ NullRecords(up, sort.key) = NullRecords(down, sort.key)

\* The string form of a record's sort field
SortString(id, key) == StringOf(Row[id][key])

\* C14: two values that are not both numbers compare as their strings do
\* with case ignored and digit runs taken as numbers: an ascending sort by
\* name puts the record named "Item2" before the one named "item10", and
\* the records named "Lamp" and "lamp" compare equal and keep the order
\* the filter gave them.
C14_NaturalStringOrder ==
    sort.key # NoKey =>
        LET asc == CompareTable[Ascending(sort.key)]
            up == SortStage(filteredData, Ascending(sort.key)).output
        IN /\ \A a \in Members(filteredData) : \A b \in Members(filteredData) :
                 (Row[a][sort.key].t = "str" \/ Row[b][sort.key].t = "str")
                     => asc[a][b] = LocaleCompare(ToLowerCase(SortString(a, sort.key)),
                                                  ToLowerCase(SortString(b, sort.key)))
           /\ sort.key = "name" =>
                 /\ asc["item2"]["neg2a"] < 0
                 /\ Before(up, "item2", "neg2a")
                 /\ asc["neg1"]["neg1a"] = 0
                 /\ asc["neg1a"]["neg1"] = 0
                 /\ Before(filteredData, "neg1", "neg1a") => Before(up, "neg1", "neg1a")
                 /\ Before(filteredData, "neg1a", "neg1") => Before(up, "neg1a", "neg1")

\* The names "Lamp", "item10", "lamp", "Item2" sorted ascending
C14_Witness ==
    /\ sort = Ascending("name")
    /\ filteredData = <<"neg1a", "neg2a", "neg1", "item2">>
    /\ sortedData = <<"item2", "neg2a", "neg1a", "neg1">>

\* C15: while the sort key is none the sorted collection is the filtered
\* collection, record for record in the filter's order, whichever value the
\* direction has.
C15_UnsortedPassthrough ==
    /\ sort.key = NoKey =>
          /\ sortedData = filteredData
          /\ sortedData = Filter(SafeData(data), searchTerm, searchFields)
    /\ \A direction \in {"asc", "desc"} :
          SortStage(filteredData, [key |-> NoKey, direction |-> direction]).output
              = filteredData

\* No header clicked yet, a search that kept two records which a sort by
\* name would swap
C15_Witness ==
    /\ sort.key = NoKey
    /\ searchTerm # <<>>
    /\ Len(filteredData) >= 2
    /\ ArraySort(filteredData, Ascending("name")) # filteredData
    /\ sortedData = filteredData

\* C16: the display bounds are the 1-based positions of the first and the
\* last record of the current page in the filtered+sorted collection:
\* start = pageIndex*pageSize + 1, end = min((pageIndex+1)*pageSize,
\* totalCount), end - start + 1 is the length of the page slice, end is
\* totalCount on the last page; both are 0 when totalCount = 0.
C16_DisplayBounds ==
    LET totalCount == Len(FilteredSorted)
    IN IF totalCount = 0
       THEN StartIndex = 0 /\ EndIndex = 0
       ELSE /\ StartIndex = (page * pageSize) + 1
            /\ EndIndex = Min((page + 1) * pageSize, totalCount)
            /\ (EndIndex - StartIndex) + 1 = Len(PageData)
            /\ PageData = SubSeq(FilteredSorted, StartIndex, EndIndex)
            /\ page = FilteredSortedPages - 1 => EndIndex = totalCount

\* The partial last page of several, over a narrowed search
C16_Witness ==
    /\ searchTerm # <<>>
    /\ page >= 1
    /\ page = TotalPages - 1
    /\ Total % pageSize # 0
    /\ StartIndex = Total
    /\ EndIndex = Total
    /\ Len(PageData) = 1

\* C17: hasPrev holds exactly when pageIndex > 0 and hasNext exactly when
\* pageIndex < totalPages - 1; neither holds when the filtered collection
\* is empty or fits on one page; the Previous and the Next button are
\* enabled exactly when their handler would change the page index.
C17_NavigationFlags ==
    /\ hasFirst <=> page > 0
    /\ hasLast <=> page < FilteredSortedPages - 1
    /\ FilteredSortedPages <= 1 => (~hasFirst /\ ~hasLast)
    /\ hasFirst <=> OnClickPrevious.page # page
    /\ hasLast <=> OnClickNext.page # page

\* The last of three pages: Previous enabled, Next disabled
C17_Witness ==
    /\ TotalPages = 3
    /\ page = 2
    /\ hasFirst
    /\ ~hasLast
    /\ OnClickPrevious.page = 1
    /\ OnClickNext.page = 2

\* The least number of pages of `size` records that hold `total` records
PagesNeeded(total, size) ==
    CHOOSE n \in 0..total : n * size >= total /\ (n - 1) * size < total

\* C18: totalPages is max(1, ceil(totalCount / pageSize)) when the
\* filtered+sorted collection holds totalCount > 0 records and 0 when it
\* holds none, in the state every operation leaves.
C18_TotalPages ==
    LET totalCount == Len(FilteredSorted)
    IN /\ Total = totalCount
       /\ TotalPages = IF totalCount = 0 THEN 0
                       ELSE Max(1, PagesNeeded(totalCount, pageSize))

\* Three records on pages of two, after a search narrowed and a sort
\* reordered the collection
C18_Witness ==
    /\ searchTerm # <<>>
    /\ sort.key # NoKey
    /\ Total = 3
    /\ pageSize = 2
    /\ TotalPages = 2

\* C19: with no search field listed and a non-empty term the filter output
\* is empty, for every collection; the table then shows no record.
C19_NoFieldsNoMatch ==
    /\ \A term \in Terms \ {<<>>} : Filter(SafeData(data), term, <<>>) = <<>>
    /\ (searchFields = <<>> /\ searchTerm # <<>>) =>
          (filteredData = <<>> /\ sortedData = <<>> /\ Total = 0)

\* A search over a table of several records constructed without search
\* fields
C19_Witness ==
    /\ searchFields = <<>>
    /\ searchTerm # <<>>
    /\ Len(SafeData(data)) >= 2
    /\ filteredData = <<>>
    /\ PageData = <<>>

\* Two descriptors of the column list share a key
HasDuplicateKey(cols) ==
    \E i \in 1..Len(cols) : \E j \in 1..Len(cols) : i # j /\ cols[i].key = cols[j].key

\* C20: no table exists, at construction or after any operation, whose page
\* size is not positive or whose column list has two descriptors with the
\* same key: constructing one fails.
C20_ConfigRejected ==
    ~(pageSize <= 0 \/ HasDuplicateKey(columns))

\* What each operation of the table would leave from the current state
OperationResults ==
    {AfterSetSearchTerm(term) : term \in Terms}
        \cup {AfterHandleSort(colKey) : colKey \in SortableKeysOf(columns)}
        \cup {OnClickNext, OnClickPrevious}

\* C21: with an empty or missing raw collection the derived counts are all
\* zero (filteredCount = totalCount = totalPages = 0), the page slice is
\* empty, pageIndex = 0 and hasPrev = hasNext = false, and every operation
\* (search, header click, next, previous) leaves it so.
C21_EmptyCollection ==
    SafeData(data) = <<>> =>
        /\ Len(filteredData) = 0
        /\ Total = 0
        /\ TotalPages = 0
        /\ PageData = <<>>
        /\ page = 0
        /\ ~hasFirst
        /\ ~hasLast
        /\ \A next \in OperationResults :
              /\ next.data = data
              /\ next.filteredData = <<>>
              /\ next.sortedData = <<>>
              /\ next.page = 0

\* A table without a data prop after a search and a header click
C21_Witness ==
    /\ ~data.given
    /\ searchTerm # <<>>
    /\ sort.key # NoKey
    /\ PageData = <<>>
    /\ OnClickNext.page = 0

\* The filtered+sorted collection of the state `next`
FilteredSortedOf(next) ==
    SortStage(Filter(SafeData(next.data), next.searchTerm, searchFields), next.sort).output

\* C22: after every operation the queries are those of the latest state:
\* the current page records are the page slice of the filtered+sorted
\* collection of the current raw collection, term, key and direction at the
\* current page index, and filteredCount, totalPages and the display bounds
\* are derived from that same collection.
C22_QueriesReflectState ==
    /\ filteredData = Filter(SafeData(data), searchTerm, searchFields)
    /\ sortedData = FilteredSorted
    /\ PageData = PageSlice(FilteredSorted, pageSize, page)
    /\ Len(filteredData) = Len(FilteredSorted)
    /\ Total = Len(FilteredSorted)
    /\ TotalPages = FilteredSortedPages
    /\ StartIndex = StartIndexOf(Len(FilteredSorted), pageSize, page)
    /\ EndIndex = EndIndexOf(Len(FilteredSorted), pageSize, page)
    /\ \A next \in OperationResults \cup {AfterSetData(d) : d \in ControllerData} :
          /\ next.sortedData = FilteredSortedOf(next)
          /\ next.page = ClampPage(next.page,
                             TotalPagesOf(Len(FilteredSortedOf(next)), pageSize))

\* A narrowed collection under a sort key, shown on its last page, which is
\* not the first
C22_Witness ==
    /\ searchTerm # <<>>
    /\ sort.key # NoKey
    /\ page >= 1
    /\ Len(sortedData) < Len(SafeData(data))
    /\ PageData = <<sortedData[Len(sortedData)]>>

\* C23: nextPage and prevPage leave the search term, the sort key and the
\* sort direction as they are, and the raw, the filtered and the sorted
\* collection with them; the filtered+sorted collection is the same at
\* every page index.
C23_PaginationNoFeedback ==
    /\ \A next \in {OnClickNext, OnClickPrevious} :
          /\ next.searchTerm = searchTerm
          /\ next.sort = sort
          /\ next.data = data
          /\ next.filteredData = filteredData
          /\ next.sortedData = sortedData
    /\ \A pg \in 0..MaxLen :
          /\ Render(data, searchTerm, sort, pg).filteredData = filteredData
          /\ Render(data, searchTerm, sort, pg).sortedData = sortedData

\* A searched and sorted table on a middle page: both moves change the page
C23_Witness ==
    /\ searchTerm # <<>>
    /\ sort.key # NoKey
    /\ OnClickPrevious.page = page - 1
    /\ OnClickNext.page = page + 1

\* Each operation's result with the stages it runs
OperationRuns ==
    {[next |-> AfterSetSearchTerm(term), stages |-> StagesOfSetSearchTerm(term)] :
        term \in Terms}
    \cup {[next |-> AfterHandleSort(colKey), stages |-> StagesOfHandleSort(colKey)] :
             colKey \in SortableKeysOf(columns)}
    \cup {[next |-> AfterSetData(d), stages |-> StagesOfSetData(d)] : d \in ControllerData}
    \cup {[next |-> OnClickNext, stages |-> StagesOfNextPage],
          [next |-> OnClickPrevious, stages |-> StagesOfPrevPage]}

\* C24: nextPage and prevPage run neither the filter nor the sort stage; the
\* sort stage runs only when the filtered collection, the sort key or the
\* sort direction is another one than at its last run, and whenever it is
\* skipped the sorted collection it holds is still the right one.
C24_MinimalRecompute ==
    /\ ~StagesOfNextPage.filter /\ ~StagesOfNextPage.sort
    /\ ~StagesOfPrevPage.filter /\ ~StagesOfPrevPage.sort
    /\ \A op \in OperationRuns :
          /\ op.stages.sort =>
                \/ FilteredArrayChanges(op.next.data, op.next.searchTerm)
                \/ op.next.sort # sort
          /\ ~op.stages.sort => op.next.sortedData = sortedData
          /\ ~op.stages.filter => op.next.filteredData = filteredData

\* A searched and sorted table from which nextPage moves to another page
\* without running a stage
C24_Witness ==
    /\ searchTerm # <<>>
    /\ sort.key # NoKey
    /\ hasLast
    /\ OnClickNext.page # page
    /\ ~StagesOfNextPage.sort
    /\ ~StagesOfNextPage.filter

\* C25: two header clicks handled in one step leave the sort state that the
\* later click alone would have left from the state before the step.
C25_LastWriterWins ==
    \A first \in SortableKeysOf(columns) : \A second \in SortableKeysOf(columns) :
        AfterHandleSortBatch(first, second).sort = AfterHandleSort(second).sort

Reverse(items) == [i \in 1..Len(items) |-> items[(Len(items) + 1) - i]]

\* The records of a collection that are in S, in order
RECURSIVE Restrict(_, _)
Restrict(items, S) ==
    IF items = <<>> THEN <<>>
    ELSE (IF Head(items) \in S THEN <<Head(items)>> ELSE <<>>) \o Restrict(Tail(items), S)

\* Two different records of the filtered collection whose sort values
\* compare equal
Tied(a, b) ==
    /\ a \in Members(filteredData)
    /\ b \in Members(filteredData)
    /\ a # b
    /\ CompareTable[sort][a][b] = 0

\* C26: under a sort key, in either direction, two records whose sort values
\* compare equal (two nulls included) stand in the sorted collection in the
\* order they have in the filtered collection; so with a tie the descending
\* result is not the ascending result reversed.
C26_StableSort ==
    sort.key # NoKey =>
        LET up == SortStage(filteredData, Ascending(sort.key)).output
            down == SortStage(filteredData, Descending(sort.key)).output
        IN \A a \in TiesPool : \A b \in TiesPool :
               Tied(a, b) =>
                   /\ Restrict(sortedData, {a, b}) = Restrict(filteredData, {a, b})
                   /\ Restrict(up, {a, b}) = Restrict(down, {a, b})
                   /\ Restrict(filteredData, {a, b}) # Reverse(Restrict(filteredData, {a, b}))
                         => down # Reverse(up)

\* C27: the sort key is none or the key of a sortable column; a click on a
\* sortable header sets that column's key, and from a state with a sort key
\* no operation leaves a state without one.
C27_SortKeySortable ==
    /\ sort.key = NoKey \/ \E i \in 1..Len(columns) :
                               columns[i].sortable /\ columns[i].key = sort.key
    /\ \A colKey \in SortableKeysOf(columns) : AfterHandleSort(colKey).sort.key = colKey
    /\ sort.key # NoKey =>
          \A next \in OperationResults \cup {AfterSetData(d) : d \in ControllerData} :
              next.sort.key # NoKey

\* A table with a header that is not sortable, sorted descending by the
\* sortable one and then searched
C27_Witness ==
    /\ \E i \in 1..Len(columns) :
          ~columns[i].sortable /\ columns[i].key \notin SortableKeysOf(columns)
    /\ sort.key # NoKey
    /\ sort.direction = "desc"
    /\ searchTerm # <<>>

\* The promote/archive requests of the capability that have not settled
InFlight == (IF detail.request = "none" THEN 0 ELSE 1) + Len(detail.orphans)

\* C28: in a rendered CapabilityDetail busy is non-null exactly while a
\* promote/archive request is in flight, and is then the action of that
\* request; while it is non-null no button starts a request, so at most one
\* request is in flight; onAction has run once per successful request.
C28_BusyWhileInFlight ==
    /\ detail.expanded => (detail.busy # "null" <=> InFlight > 0)
    /\ detail.busy # "null" => detail.busy = detail.request
    /\ detail.busy # "null" => \A action \in Actions : ~ButtonEnabled(action)
    /\ InFlight <= 1
    /\ detail.refetches = detail.succeeded

\* C29: the status message of a save is removed only by the start of the
\* next save or, when it is 'Saved', by the timer of its own save, 2
\* seconds after it was set: a timer never removes an 'Error' message, nor
\* a 'Saved' message younger than 2 seconds.
C29_MessageLifetime ==
    settings.cleared.by = "timer" =>
        /\ settings.cleared.msg = "Saved"
        /\ settings.cleared.age = SaveMsgTimeout

\* The registrations of cb that are still subscribed
Subscribed(cb) ==
    {r \in 1..Len(hashHistory.regs) :
        hashHistory.regs[r].cb = cb /\ ~hashHistory.regs[r].unsubscribed}

\* The registrations of cb that were subscribed when the notification started
StartedOf(cb) ==
    {r \in hashHistory.started : hashHistory.regs[r].cb = cb}

\* How often cb stands in the listeners array
Occurrences(cb) ==
    Cardinality({i \in 1..Len(hashHistory.listeners) : hashHistory.listeners[i] = cb})

\* C30: unsubscribing affects only its own registration. The listeners
\* array holds each callback once per registration that is still
\* subscribed, however often and wherever the unsubscribe functions were
\* called; and a completed notification has invoked a callback once per
\* registration of it, when the registrations of that callback are the
\* ones it started with (none unsubscribed, none added).
C30_UnsubscribeOwnRegistration ==
    \A cb \in Callbacks :
        /\ Occurrences(cb) = Cardinality(Subscribed(cb))
        /\ (hashHistory.completed /\ StartedOf(cb) = Subscribed(cb))
           => hashHistory.calls[cb] = Cardinality(Subscribed(cb))

====
